---- MODULE Spec2Model ----
(***************************************************************************)
(* A model of src/trees.py: the Grammar's rule application order, the      *)
(* interval graph built from a document's layers, chart resolution         *)
(* (get_valid_paths, get_nonterminal_nodes) and the selection of one parse  *)
(* tree (choose_parse_tree).  networkx 1.x semantics are assumed, as the    *)
(* source relies on them (graph.nodes() and graph.successors() are lists).  *)
(***************************************************************************)
EXTENDS Integers, Sequences, FiniteSets, TLC

VARIABLES
    pc,          \* position of the program
    rules,       \* Grammar.rules
    rules_deps,  \* get_rule_application_order: nonterminal -> dependency set
    order,       \* get_rule_application_order: the order built so far
    oi,          \* get_rule_application_order: position of the for loop
    items,       \* graph_from_document: the list of elementary nodes
    df,          \* graph_from_document: the dataframe of candidate pairs
    graph,       \* the interval graph under construction ([nodes, edges])
    to_remove,   \* remove_shortcuts: the edges marked by the last reduction
    g2,          \* get_nonterminal_nodes: the growing copy of the graph
    nodes,       \* get_nonterminal_nodes: the candidate map
    ni,          \* get_nonterminal_nodes: position in the application order
    ri,          \* get_nonterminal_nodes: position among the rules of a nonterminal
    paths,       \* get_nonterminal_nodes: the paths found for the current rule
    pi,          \* get_nonterminal_nodes: position among the paths
    stack,       \* choose_parse_tree: the work queue
    tree         \* choose_parse_tree: the tree under construction

grammarVars == <<rules, rules_deps, order, oi>>

graphVars == <<items, df, graph, to_remove>>

parseVars == <<g2, nodes, ni, ri, paths, pi, stack, tree>>

vars == <<pc, grammarVars, graphVars, parseVars>>

(***************************************************************************)
(* Bounds of the model.                                                    *)
(***************************************************************************)
\* document offsets range over 0..MaxPos
MaxPos == 4
\* an annotation covers at most MaxLen offsets
MaxLen == 2
\* a document holds at most MaxItems annotations
MaxItems == 3
\* a grammar holds at most MaxRules rules
MaxRules == 2
\* the nodes of the graphs get_valid_paths is run on alone
MaxNodes == 4
\* the symbols on the right-hand side of the rule it is run with
MaxRhs == 2

\* the names of the document's layers
Layers == {"a", "b"}

(***************************************************************************)
(* Node, START, END (trees.py 11-46).  A node is identified by its span and *)
(* its name; float('inf') is modelled by a number beyond every offset.      *)
(***************************************************************************)
Inf == 1000

Node(span, name) == [span |-> span, name |-> name]

START == Node(<<0 - Inf, 0 - Inf>>, "START")

END == Node(<<Inf, Inf>>, "END")

\* Node.__lt__: tuple comparison of the spans
NodeLt(x, y) ==
    \/ x.span[1] < y.span[1]
    \/ x.span[1] = y.span[1] /\ x.span[2] < y.span[2]

\* Node.__gt__
NodeGt(x, y) == NodeLt(y, x)

EmptyGraph == [nodes |-> {}, edges |-> {}]

successors(G, n) == {e[2] : e \in {d \in G.edges : d[1] = n}}

predecessors(G, n) == {e[1] : e \in {d \in G.edges : d[2] = n}}

\* nx.descendants: the nodes reachable from n by at least one edge
RECURSIVE Grow(_, _)
Grow(G, seen) ==
    LET more == UNION {successors(G, x) : x \in seen}
    IN  IF more \subseteq seen THEN seen ELSE Grow(G, seen \cup more)

descendants(G, n) == Grow(G, {n}) \ {n}

Reversed(G) == [nodes |-> G.nodes, edges |-> {<<e[2], e[1]>> : e \in G.edges}]

\* nx.ancestors
ancestors(G, n) == descendants(Reversed(G), n)

(***************************************************************************)
(* Rule and Grammar (trees.py 49-128).                                     *)
(***************************************************************************)
Rule(lhs, rhs, weight) == [lhs |-> lhs, rhs |-> rhs, weight |-> weight]

\* Rule.__init__ without a weight: the weight is len(rhs)
DefaultRule(lhs, rhs) == Rule(lhs, rhs, Len(rhs))

Range(s) == {s[k] : k \in 1 .. Len(s)}

\* Grammar.nonterminals
nonterminals(rs) == {rs[k].lhs : k \in 1 .. Len(rs)}

\* Grammar.terminals
terminals(rs) == UNION {Range(rs[k].rhs) : k \in 1 .. Len(rs)} \ nonterminals(rs)

\* Grammar.__getitem__ for a nonterminal: its rules, in the order of the grammar
GrammarRules(rs, key) == SelectSeq(rs, LAMBDA r : r.lhs = key)

\* the keys of toolz.groupby(lambda x: x['lhs'], self): the left-hand sides in
\* the order of their first rule
RECURSIVE DepKeys(_)
DepKeys(rs) ==
    IF rs = <<>> THEN <<>>
    ELSE LET front == DepKeys(SubSeq(rs, 1, Len(rs) - 1))
             k     == rs[Len(rs)].lhs
         IN  IF k \in Range(front) THEN front ELSE Append(front, k)

\* rules_deps as get_rule_application_order builds it: every symbol of the
\* right-hand sides of the rules of k that is not a terminal
InitialDeps(rs) ==
    [k \in nonterminals(rs) |->
        UNION {Range(r.rhs) : r \in Range(GrammarRules(rs, k))} \ terminals(rs)]

(***************************************************************************)
(* Grammar.__init__ and get_rule_application_order (trees.py 50-77), one    *)
(* step per evaluation of the while condition and per iteration of the for  *)
(* loop over rules_deps.items().                                            *)
(***************************************************************************)
GrammarNew(grammars) ==
    /\ pc = "new"
    /\ \E rs \in grammars :
          /\ rules' = rs
          /\ rules_deps' = InitialDeps(rs)
    /\ order' = <<>>
    /\ oi' = 0
    /\ pc' = "while"
    /\ UNCHANGED <<graphVars, parseVars>>

\* while len(order) != len(self.nonterminals): start the for loop
WhileEnter ==
    /\ pc = "while"
    /\ Len(order) # Cardinality(nonterminals(rules))
    /\ oi' = 1
    /\ pc' = "for"
    /\ UNCHANGED <<rules, rules_deps, order, graphVars, parseVars>>

\* the while condition fails: return order
WhileExit ==
    /\ pc = "while"
    /\ Len(order) = Cardinality(nonterminals(rules))
    /\ pc' = "start"
    /\ UNCHANGED <<grammarVars, graphVars, parseVars>>

\* if not v and k not in order: order.append(k); break
ForAppend ==
    /\ pc = "for"
    /\ oi <= Len(DepKeys(rules))
    /\ LET k == DepKeys(rules)[oi]
       IN  /\ rules_deps[k] = {} /\ k \notin Range(order)
           /\ order' = Append(order, k)
    /\ pc' = "while"
    /\ UNCHANGED <<rules, rules_deps, oi, graphVars, parseVars>>

\* else: for _ in order: rules_deps[k] -= set(order)
ForSubtract ==
    /\ pc = "for"
    /\ oi <= Len(DepKeys(rules))
    /\ LET k == DepKeys(rules)[oi]
       IN  /\ ~(rules_deps[k] = {} /\ k \notin Range(order))
           /\ rules_deps' = [rules_deps EXCEPT ![k] =
                                IF order = <<>> THEN @ ELSE @ \ Range(order)]
    /\ oi' = oi + 1
    /\ UNCHANGED <<pc, rules, order, graphVars, parseVars>>

\* the for loop ran over every item without a break
ForExhausted ==
    /\ pc = "for"
    /\ oi > Len(DepKeys(rules))
    /\ pc' = "while"
    /\ UNCHANGED <<grammarVars, graphVars, parseVars>>

(***************************************************************************)
(* The document: rows maps a layer name to a list of (start, end) spans.    *)
(* It is modelled as the list of its layers in the mapping's order.         *)
(***************************************************************************)
Spans == {<<s, e>> \in (0 .. MaxPos) \X (0 .. MaxPos) : s < e /\ e - s <= MaxLen}

SpanLt(p, q) == p[1] < q[1] \/ (p[1] = q[1] /\ p[2] < q[2])

RECURSIVE SpanList(_)
SpanList(S) ==
    IF S = {} THEN <<>>
    ELSE LET m == CHOOSE x \in S : \A y \in S : x = y \/ SpanLt(x, y)
         IN  <<m>> \o SpanList(S \ {m})

\* the layers in the order of the mapping; the program compares layer names for
\* equality only, so that one order stands for every order up to renaming
LayerOrder == <<"a", "b">>

Annotations == {Node(sp, l) : sp \in Spans, l \in Layers}

Rows(S) ==
    [i \in 1 .. Len(LayerOrder) |->
        [name |-> LayerOrder[i],
         indices |-> SpanList({n.span : n \in {m \in S : m.name = LayerOrder[i]}})]]

\* the sets of at most k annotations
RECURSIVE UpTo(_)
UpTo(k) ==
    IF k = 0 THEN {{}}
    ELSE LET less == UpTo(k - 1)
         IN  less \cup {T \cup {x} : T \in less, x \in Annotations}

Documents == UpTo(MaxItems)

\* get_elementary_nodes
RECURSIVE get_elementary_nodes(_)
get_elementary_nodes(rows) ==
    IF rows = <<>> THEN <<>>
    ELSE [k \in 1 .. Len(Head(rows).indices) |->
             Node(Head(rows).indices[k], Head(rows).name)]
         \o get_elementary_nodes(Tail(rows))

\* get_dense_mapping: offset -> rank among the sorted start and end offsets
get_dense_mapping(rows) ==
    LET its  == get_elementary_nodes(rows) @@ <<>>
        offs == {its[k].span[1] : k \in 1 .. Len(its)}
                    \cup {its[k].span[2] : k \in 1 .. Len(its)}
    IN  [o \in offs |-> Cardinality({x \in offs : x < o})]

\* get_dense_matrix: res[row][col] = start_index[col] > end_index[row], where
\* the indices are the first and the last cell of x[mapping[a]: mapping[b]]
get_dense_matrix(rows) ==
    LET its         == get_elementary_nodes(rows) @@ <<>>
        mapping     == get_dense_mapping(rows) @@ <<>>
        start_index == [k \in 1 .. Len(its) |-> mapping[its[k].span[1]]]
        end_index   == [k \in 1 .. Len(its) |-> mapping[its[k].span[2]] - 1]
    IN  {<<row, col>> \in (1 .. Len(its)) \X (1 .. Len(its)) :
            start_index[col] > end_index[row]}

\* matrix_to_dataframe
matrix_to_dataframe(res, its) ==
    {[n1 |-> its[c[1]].name, s1 |-> its[c[1]].span[1], e1 |-> its[c[1]].span[2],
      n2 |-> its[c[2]].name, s2 |-> its[c[2]].span[1], e2 |-> its[c[2]].span[2],
      a |-> c[1], b |-> c[2]] : c \in res}

MinOf(S) == CHOOSE x \in S : \A y \in S : x <= y

\* a filter that groups by e1 alone, whatever the label of the successor
GroupFilterAnyLabel(d) ==
    {y \in d : y.s2 <= MinOf({z.e2 : z \in {w \in d : w.e1 = y.e1}})}

\* df.groupby('e1').apply(lambda x: x.groupby('n2').apply(
\*     lambda y: y[y.s2 <= y.e2.min()]))
GroupFilter(d) ==
    {y \in d : y.s2 <= MinOf({z.e2 : z \in {w \in d : w.e1 = y.e1 /\ w.n2 = y.n2}})}

\* edges_from_dataframe (an empty dataframe raises 'no items in df')
edges_from_dataframe(d, its) ==
    {<<its[y.a], its[y.b]>> : y \in GroupFilter(d)}

\* sorted(items): a stable sort by Node.__lt__
RECURSIVE sorted(_)
Insert(x, s) ==
    LET before == {k \in 1 .. Len(s) : ~NodeLt(x, s[k])}
        n      == IF before = {} THEN 0
                  ELSE CHOOSE k \in before : \A j \in before : j <= k
    IN  SubSeq(s, 1, n) \o <<x>> \o SubSeq(s, n + 1, Len(s))

sorted(s) ==
    IF s = <<>> THEN <<>>
    ELSE Insert(s[Len(s)], sorted(SubSeq(s, 1, Len(s) - 1)))

\* create_entry_and_exit_nodes
create_entry_and_exit_nodes(G, its) ==
    LET srt == sorted(its)
        G1  == [nodes |-> G.nodes \cup {START, END},
                edges |-> G.edges \cup {<<START, srt[1]>>}]
        G2  == [G1 EXCEPT !.edges = @ \cup
                   {<<START, n>> : n \in (G1.nodes \ {START}) \ descendants(G1, START)}]
        G3  == [G2 EXCEPT !.edges = @ \cup {<<srt[Len(srt)], END>>}]
    IN  [G3 EXCEPT !.edges = @ \cup
            {<<n, END>> : n \in (G3.nodes \ {END}) \ ancestors(G3, END)}]

(***************************************************************************)
(* remove_shortcuts (trees.py 242-257).                                    *)
(***************************************************************************)
\* nx.to_numpy_matrix(graph) == 1
adjacency_matrix(G) == G.edges

Min2(x, y) == IF x <= y THEN x ELSE y

\* nx.floyd_warshall_numpy: the matrix of shortest distances
RECURSIVE Relax(_, _, _)
Relax(A, N, todo) ==
    IF todo = {} THEN A
    ELSE LET i == CHOOSE x \in todo : TRUE
             B == [c \in N \X N |-> Min2(A[c], A[<<c[1], i>>] + A[<<i, c[2]>>])]
         IN  Relax(B @@ <<>>, N, todo \ {i})

floyd_warshall_numpy(G) ==
    Relax([c \in G.nodes \X G.nodes |->
              IF c[1] = c[2] THEN 0 ELSE IF c \in G.edges THEN 1 ELSE Inf],
          G.nodes, G.nodes)

\* nx.floyd_warshall_numpy(graph) == 1
reachability_matrix(G) ==
    LET dist == floyd_warshall_numpy(G)
    IN  {c \in G.nodes \X G.nodes : dist[c] = 1}

\* a product that reads the second operand transposed; a reduction built on it
\* would cut nodes off
MatMulTransposed(A, R, N) ==
    {c \in N \X N : \E k \in N : <<c[1], k>> \in A /\ <<c[2], k>> \in R}

\* adjacency_matrix @ reachability_matrix, as boolean matrices
MatMul(A, R, N) ==
    {c \in N \X N : \E k \in N : <<c[1], k>> \in A /\ <<k, c[2]>> \in R}

\* adjacency_matrix & ~(adjacency_matrix @ reachability_matrix)
transitive_reduction(G) ==
    adjacency_matrix(G)
        \ MatMul(adjacency_matrix(G), reachability_matrix(G), G.nodes)

\* adjacency_matrix ^ transitive_reduction
ToRemove(G) ==
    LET reduction == transitive_reduction(G)
    IN  (adjacency_matrix(G) \ reduction) \cup (reduction \ adjacency_matrix(G))

remove_shortcuts(G) == [G EXCEPT !.edges = @ \ ToRemove(G)]

(***************************************************************************)
(* add_blanks (trees.py 229-239): graph.nodes() and graph.successors(node)  *)
(* are lists taken before the loop over them starts.                        *)
(***************************************************************************)
\* a loop over the successors that leaves gaps of two offsets alone
RECURSIVE BlankSuccsWide(_, _, _)
BlankSuccsWide(G, node, succs) ==
    IF succs = {} THEN G
    ELSE LET succ  == CHOOSE x \in succs : TRUE
             nnode == Node(<<node.span[2], succ.span[1]>>, "_")
             G1    == IF succ.span[1] - node.span[2] > 2 /\ succ # END
                      THEN [nodes |-> G.nodes \cup {nnode},
                            edges |-> (G.edges \cup {<<node, nnode>>, <<nnode, succ>>})
                                          \ {<<node, succ>>}]
                      ELSE G
         IN  BlankSuccsWide(G1, node, succs \ {succ})

RECURSIVE BlankSuccs(_, _, _)
BlankSuccs(G, node, succs) ==
    IF succs = {} THEN G
    ELSE LET succ  == CHOOSE x \in succs : TRUE
             nnode == Node(<<node.span[2], succ.span[1]>>, "_")
             G1    == IF succ.span[1] - node.span[2] > 1 /\ succ # END
                      THEN [nodes |-> G.nodes \cup {nnode},
                            edges |-> (G.edges \cup {<<node, nnode>>, <<nnode, succ>>})
                                          \ {<<node, succ>>}]
                      ELSE G
         IN  BlankSuccs(G1, node, succs \ {succ})

RECURSIVE BlankNodes(_, _)
BlankNodes(G, todo) ==
    IF todo = {} THEN G
    ELSE LET node == CHOOSE x \in todo : TRUE
             G1   == IF node.name # "_" /\ node # START
                     THEN BlankSuccs(G, node, successors(G, node))
                     ELSE G
         IN  BlankNodes(G1, todo \ {node})

add_blanks(G) == BlankNodes(G, G.nodes)

(***************************************************************************)
(* graph_from_document (trees.py 134-147), one step per call.              *)
(***************************************************************************)
ReadDocument(documents) ==
    /\ pc = "start"
    /\ \E S \in documents :
          LET rows == Rows(S) @@ <<>>
          IN  /\ items' = get_elementary_nodes(rows)
              /\ df' = matrix_to_dataframe(get_dense_matrix(rows),
                                           get_elementary_nodes(rows))
    /\ pc' = "df"
    /\ UNCHANGED <<grammarVars, parseVars, graph, to_remove>>

EdgesFromDataframe ==
    /\ pc = "df"
    /\ df # {}
    /\ graph' = [nodes |-> {items[k] : k \in 1 .. Len(items)},
                 edges |-> edges_from_dataframe(df, items)]
    /\ pc' = "edges"
    /\ UNCHANGED <<grammarVars, parseVars, items, df, to_remove>>

\* edges_from_dataframe on an empty dataframe: AssertionError('no items in df')
NoItemsInDf ==
    /\ pc = "df"
    /\ df = {}
    /\ pc' = "no_items"
    /\ UNCHANGED <<grammarVars, parseVars, items, df, graph, to_remove>>

CreateEntryAndExitNodes ==
    /\ pc = "edges"
    /\ graph' = create_entry_and_exit_nodes(graph, items)
    /\ pc' = "sentinels"
    /\ UNCHANGED <<grammarVars, parseVars, items, df, to_remove>>

RemoveShortcuts ==
    /\ pc \in {"sentinels", "blanks"}
    /\ to_remove' = ToRemove(graph)
    /\ graph' = remove_shortcuts(graph)
    /\ pc' = IF pc = "sentinels" THEN "reduced" ELSE "base"
    /\ UNCHANGED <<grammarVars, parseVars, items, df>>

AddBlanks ==
    /\ pc = "reduced"
    /\ graph' = add_blanks(graph)
    /\ pc' = "blanks"
    /\ UNCHANGED <<grammarVars, parseVars, items, df, to_remove>>

NoGrammar ==
    /\ rules = <<>>
    /\ rules_deps = <<>>
    /\ order = <<>>
    /\ oi = 0

NoGraph ==
    /\ items = <<>>
    /\ df = {}
    /\ graph = EmptyGraph
    /\ to_remove = {}

NoParse ==
    /\ g2 = EmptyGraph
    /\ nodes = <<>>
    /\ ni = 0
    /\ ri = 0
    /\ paths = <<>>
    /\ pi = 0
    /\ stack = <<>>
    /\ tree = EmptyGraph

InitGraph == pc = "start" /\ NoGrammar /\ NoGraph /\ NoParse

NextGraph ==
    \/ ReadDocument(Documents)
    \/ EdgesFromDataframe
    \/ NoItemsInDf
    \/ CreateEntryAndExitNodes
    \/ RemoveShortcuts
    \/ AddBlanks

SpecGraph == InitGraph /\ [][NextGraph]_vars

(***************************************************************************)
(* The construction of a Grammar alone.  The grammars are the lists of at   *)
(* most MaxRules rules over three nonterminals and one terminal.            *)
(***************************************************************************)
OrderSymbols == {"S", "A", "B", "a"}

OrderRulePool ==
    {DefaultRule(l, r) : l \in {"S", "A", "B"},
                         r \in {<<x>> : x \in OrderSymbols} \cup {<<"A", "B">>}}

OrderGrammars == UNION {[1 .. n -> OrderRulePool] : n \in 1 .. MaxRules}

InitOrder == pc = "new" /\ NoGrammar /\ NoGraph /\ NoParse

NextOrder ==
    \/ GrammarNew(OrderGrammars)
    \/ WhileEnter
    \/ WhileExit
    \/ ForAppend
    \/ ForSubtract
    \/ ForExhausted

\* the program is sequential: it takes its next step whenever it has one
SpecOrder == InitOrder /\ [][NextOrder]_vars /\ WF_vars(NextOrder)

(***************************************************************************)
(* get_valid_paths (trees.py 288-316).  The successors of a node are        *)
(* visited in one fixed order.                                              *)
(***************************************************************************)
RECURSIVE SetToSeq(_)
SetToSeq(S) ==
    IF S = {} THEN <<>>
    ELSE LET x == CHOOSE y \in S : TRUE
         IN  <<x>> \o SetToSeq(S \ {x})

\* new_graph: START and END are removed with their edges and added again, with
\* an edge from START to every entry and from every exit to END
SearchGraph(G, rule) ==
    LET ns      == (G.nodes \ {START, END}) \cup {START, END}
        es      == {e \in G.edges : e[1] \notin {START, END} /\ e[2] \notin {START, END}}
        entries == {n \in ns : n.name = rule.rhs[1]}
        exits   == {n \in ns : n.name = rule.rhs[Len(rule.rhs)]}
    IN  [nodes |-> ns,
         edges |-> es \cup {<<START, i>> : i \in entries} \cup {<<i, END>> : i \in exits}]

\* a test that stops extending one node short of the rule
ExtendsShort(current_path, succ, etalon) ==
    /\ Len(current_path) < Len(etalon)
    /\ succ.name = etalon[Len(current_path)]

\* whether the while loop extends current_path by succ
Extends(current_path, succ, etalon) ==
    /\ Len(current_path) <= Len(etalon)
    /\ succ.name = etalon[Len(current_path)]

\* whether the while loop accepts current_path on meeting succ
Accepts(current_path, succ, etalon) ==
    /\ ~(Len(current_path) <= Len(etalon))
    /\ Len(current_path) = Len(etalon) + 1
    /\ succ = END

\* the while loop over the queue of partial paths
RECURSIVE SearchLoop(_, _, _, _)
SearchLoop(G, etalon, queue, dones_paths) ==
    IF queue = <<>> THEN dones_paths
    ELSE LET current_path == Head(queue)
             succs == SetToSeq(successors(G, current_path[Len(current_path)]))
             more  == [k \in 1 .. Len(succs) |-> current_path \o <<succs[k]>>]
             added == SelectSeq(more,
                          LAMBDA q : Extends(current_path, q[Len(q)], etalon))
             done  == SelectSeq(succs,
                          LAMBDA x : Accepts(current_path, x, etalon))
             found == [k \in 1 .. Len(done) |-> Tail(current_path)]
         IN  SearchLoop(G, etalon, Tail(queue) \o added, dones_paths \o found)

get_valid_paths(G, rule) ==
    SearchLoop(SearchGraph(G, rule), rule.rhs, << <<START>> >>, <<>>)

(***************************************************************************)
(* get_nonterminal_nodes (trees.py 319-338).  The candidate map is the list *)
(* of its entries in insertion order; an entry keeps the Node object that   *)
(* created it as its key, and with it that object's weight.                 *)
(***************************************************************************)
KeyIndex(M, node) == {k \in 1 .. Len(M) : M[k].key = node}

\* nodes[node].append((rule, path))
Record(M, node, rule, path) ==
    IF KeyIndex(M, node) = {}
    THEN Append(M, [key |-> node, weight |-> rule.weight,
                    derivs |-> <<[rule |-> rule, children |-> path]>>])
    ELSE LET k == CHOOSE i \in KeyIndex(M, node) : TRUE
         IN  [M EXCEPT ![k].derivs = Append(@, [rule |-> rule, children |-> path])]

\* the node synthesized for a path
Synthesized(nonterminal, path) ==
    Node(<<path[1].span[1], path[Len(path)].span[2]>>, nonterminal)

\* an insertion that forgets the edges to the successors of the path
SpliceInward(G, node, path) ==
    [nodes |-> G.nodes \cup {node},
     edges |-> G.edges \cup {<<i, node>> : i \in predecessors(G, path[1])}]

\* g2.add_node(node); g2.add_edges_from(...)
Splice(G, node, path) ==
    [nodes |-> G.nodes \cup {node},
     edges |-> G.edges \cup {<<i, node>> : i \in predecessors(G, path[1])}
                       \cup {<<node, i>> : i \in successors(G, path[Len(path)])}]

CurrentRule == GrammarRules(rules, order[ni])[ri]

\* for path in paths, from path i on: the graph and the candidate map
RECURSIVE InsertPaths(_, _, _, _, _)
InsertPaths(S, nonterminal, rule, ps, i) ==
    IF i > Len(ps) THEN S
    ELSE LET node == Synthesized(nonterminal, ps[i])
         IN  InsertPaths([g |-> Splice(S.g, node, ps[i]),
                          m |-> Record(S.m, node, rule, ps[i])],
                         nonterminal, rule, ps, i + 1)

\* for rule in grammar[nonterminal], from rule j on
RECURSIVE ApplyRules(_, _, _, _)
ApplyRules(S, nonterminal, rs, j) ==
    IF j > Len(rs) THEN S
    ELSE ApplyRules(InsertPaths(S, nonterminal, rs[j], get_valid_paths(S.g, rs[j]), 1),
                    nonterminal, rs, j + 1)

\* for nonterminal in order, the first k of them: g2 and nodes after k levels
RECURSIVE AfterLevels(_, _, _)
AfterLevels(G, rs, k) ==
    IF k = 0 THEN [g |-> G, m |-> <<>>]
    ELSE ApplyRules(AfterLevels(G, rs, k - 1), order[k], GrammarRules(rs, order[k]), 1)

\* g2 = graph.copy(); nodes = defaultdict(list)
BeginResolution ==
    /\ pc = "base"
    /\ rules # <<>>
    /\ g2' = graph
    /\ nodes' = <<>>
    /\ ni' = 1
    /\ ri' = 1
    /\ pc' = "rule"
    /\ UNCHANGED <<grammarVars, graphVars, paths, pi, stack, tree>>

\* paths = get_valid_paths(g2, rule)
GetValidPaths ==
    /\ pc = "rule"
    /\ ni <= Len(order)
    /\ paths' = get_valid_paths(g2, CurrentRule)
    /\ pi' = 1
    /\ pc' = "paths"
    /\ UNCHANGED <<grammarVars, graphVars, g2, nodes, ni, ri, stack, tree>>

\* one iteration of: for path in paths
InsertPath ==
    /\ pc = "paths"
    /\ pi <= Len(paths)
    /\ LET node == Synthesized(order[ni], paths[pi])
       IN  /\ nodes' = Record(nodes, node, CurrentRule, paths[pi])
           /\ g2' = Splice(g2, node, paths[pi])
    /\ pi' = pi + 1
    /\ UNCHANGED <<pc, grammarVars, graphVars, ni, ri, paths, stack, tree>>

\* the paths of the rule are used up: the next rule, or the next nonterminal
NextRule ==
    /\ pc = "paths"
    /\ pi > Len(paths)
    /\ IF ri < Len(GrammarRules(rules, order[ni]))
       THEN ri' = ri + 1 /\ ni' = ni
       ELSE ri' = 1 /\ ni' = ni + 1
    /\ pc' = "rule"
    /\ UNCHANGED <<grammarVars, graphVars, g2, nodes, paths, pi, stack, tree>>

(***************************************************************************)
(* choose_parse_tree (trees.py 341-360).                                   *)
(***************************************************************************)
\* the grammars of the model start at S
start_symbol == "S"

\* a selection of the keys that does not look at their label
AnyEntries(M) == M

\* [i for i in nodes.keys() if i.name == grammar.start_symbol]
StartEntries(M) == SelectSeq(M, LAMBDA m : m.key.name = start_symbol)

\* max(..., key=lambda x: x.weight): the first entry of greatest weight
RECURSIVE MaxByWeight(_)
MaxByWeight(es) ==
    IF Len(es) = 1 THEN es[1]
    ELSE LET best == MaxByWeight(SubSeq(es, 1, Len(es) - 1))
         IN  IF es[Len(es)].weight > best.weight THEN es[Len(es)] ELSE best

\* list comparison c1 > c2: the first items that differ (Node.__eq__) decide by
\* Node.__gt__, the lengths decide when there are none
ListGt(c1, c2) ==
    LET common == {k \in 1 .. Len(c1) : k <= Len(c2)}
        differ == {k \in common : c1[k] # c2[k]}
    IN  IF differ = {} THEN Len(c1) > Len(c2)
        ELSE NodeGt(c1[MinOf(differ)], c2[MinOf(differ)])

\* tuple comparison (rule.weight, children) > (rule.weight, children)
DerivGt(d1, d2) ==
    \/ d1.rule.weight > d2.rule.weight
    \/ d1.rule.weight = d2.rule.weight /\ ListGt(d1.children, d2.children)

\* max((rule.weight, children) for (rule, children) in nodes[node])
RECURSIVE MaxDeriv(_)
MaxDeriv(ds) ==
    IF Len(ds) = 1 THEN ds[1]
    ELSE LET best == MaxDeriv(SubSeq(ds, 1, Len(ds) - 1))
         IN  IF DerivGt(ds[Len(ds)], best) THEN ds[Len(ds)] ELSE best

\* a lookup that compares spans only
DerivationsBySpan(M, node) ==
    LET ks == {k \in 1 .. Len(M) : M[k].key.span = node.span}
    IN  IF ks = {} THEN <<>> ELSE M[CHOOSE i \in ks : TRUE].derivs

\* nodes[node]
Derivations(M, node) ==
    IF KeyIndex(M, node) = {} THEN <<>>
    ELSE M[CHOOSE i \in KeyIndex(M, node) : TRUE].derivs

\* no key of the candidate map is labelled with the start symbol
ParseFailed ==
    /\ pc = "rule"
    /\ ni > Len(order)
    /\ StartEntries(nodes) = <<>>
    /\ pc' = "parse_failed"
    /\ UNCHANGED <<grammarVars, graphVars, parseVars>>

\* stack = [max(...)]; graph = nx.DiGraph()
ChooseRoot ==
    /\ pc = "rule"
    /\ ni > Len(order)
    /\ StartEntries(nodes) # <<>>
    /\ stack' = <<MaxByWeight(StartEntries(nodes)).key>>
    /\ tree' = EmptyGraph
    /\ pc' = "expand"
    /\ UNCHANGED <<grammarVars, graphVars, g2, nodes, ni, ri, paths, pi>>

\* one iteration of: while stack
Expand ==
    /\ pc = "expand"
    /\ stack # <<>>
    /\ LET node == Head(stack)
           ds   == Derivations(nodes, node)
       IN  IF ds # <<>>
           THEN LET children == MaxDeriv(ds).children
                IN  /\ tree' = [nodes |-> tree.nodes \cup {node} \cup Range(children),
                                edges |-> tree.edges \cup
                                              {<<node, i>> : i \in Range(children)}]
                    /\ stack' = Tail(stack) \o children
           ELSE /\ tree' = [tree EXCEPT !.nodes = @ \cup {node}]
                /\ stack' = Tail(stack)
    /\ UNCHANGED <<pc, grammarVars, graphVars, g2, nodes, ni, ri, paths, pi>>

\* return graph
ReturnTree ==
    /\ pc = "expand"
    /\ stack = <<>>
    /\ pc' = "done"
    /\ UNCHANGED <<grammarVars, graphVars, parseVars>>

(***************************************************************************)
(* The whole program: a Grammar is constructed, then document_to_graph      *)
(* (trees.py 363-366) runs on a document.  The grammars are the lists of at *)
(* most MaxRules different rules of a sample grammar, the documents the     *)
(* sets of at most MaxItems annotations of a sample document.               *)
(***************************************************************************)
SampleRules ==
    {DefaultRule("S", <<"a", "b">>),
     Rule("S", <<"b">>, 3),
     DefaultRule("S", <<"A", "b">>),
     DefaultRule("A", <<"a">>),
     DefaultRule("S", <<"a", "_", "b">>)}

SampleGrammars ==
    UNION {{g \in [1 .. n -> SampleRules] :
               \A i, j \in 1 .. n : g[i] = g[j] => i = j} : n \in 1 .. MaxRules}

SampleAnnotations ==
    {Node(<<0, 1>>, "a"), Node(<<1, 2>>, "a"), Node(<<1, 2>>, "b"),
     Node(<<0, 2>>, "b"), Node(<<3, 4>>, "b")}

RECURSIVE SampleUpTo(_)
SampleUpTo(k) ==
    IF k = 0 THEN {{}}
    ELSE LET less == SampleUpTo(k - 1)
         IN  less \cup {T \cup {x} : T \in less, x \in SampleAnnotations}

SampleDocuments == SampleUpTo(MaxItems)

Init == pc = "new" /\ NoGrammar /\ NoGraph /\ NoParse

Next ==
    \/ GrammarNew(SampleGrammars)
    \/ WhileEnter
    \/ WhileExit
    \/ ForAppend
    \/ ForSubtract
    \/ ForExhausted
    \/ ReadDocument(SampleDocuments)
    \/ EdgesFromDataframe
    \/ NoItemsInDf
    \/ CreateEntryAndExitNodes
    \/ RemoveShortcuts
    \/ AddBlanks
    \/ BeginResolution
    \/ GetValidPaths
    \/ InsertPath
    \/ NextRule
    \/ ParseFailed
    \/ ChooseRoot
    \/ Expand
    \/ ReturnTree

\* the work-queue loop of choose_parse_tree runs to its end once entered
Spec == Init /\ [][Next]_vars /\ WF_vars(Expand \/ ReturnTree)

(***************************************************************************)
(* get_valid_paths alone (trees.py 288-316), on any graph: MaxNodes nodes   *)
(* labelled a, b, a, ... in a row, any set of forward edges between them, a *)
(* loop on the first node and an edge back from the last to the first, and  *)
(* the sentinels with an edge each; one rule of at most MaxRhs symbols.     *)
(***************************************************************************)
PathNode(i) == Node(<<i - 1, i>>, IF i % 2 = 1 THEN "a" ELSE "b")

PathNodes == {PathNode(i) : i \in 1 .. MaxNodes}

PathEdges ==
    {e \in PathNodes \X PathNodes : e[1].span[1] < e[2].span[1]}
        \cup {<<PathNode(1), PathNode(1)>>, <<PathNode(MaxNodes), PathNode(1)>>}

PathGraphs ==
    {[nodes |-> PathNodes \cup {START, END},
      edges |-> E \cup {<<START, PathNode(1)>>, <<PathNode(MaxNodes), END>>}] :
        E \in SUBSET PathEdges}

PathRules ==
    {DefaultRule(start_symbol, rhs) :
        rhs \in UNION {[1 .. n -> Layers] : n \in 1 .. MaxRhs}}

InitPaths ==
    /\ pc = "rule"
    /\ \E r \in PathRules :
          /\ rules = <<r>>
          /\ rules_deps = InitialDeps(<<r>>)
    /\ order = <<start_symbol>>
    /\ oi = 1
    /\ g2 \in PathGraphs
    /\ graph = g2
    /\ items = <<>> /\ df = {} /\ to_remove = {}
    /\ nodes = <<>>
    /\ ni = 1 /\ ri = 1
    /\ paths = <<>> /\ pi = 0
    /\ stack = <<>> /\ tree = EmptyGraph

NextPaths == GetValidPaths

SpecPaths == InitPaths /\ [][NextPaths]_vars

(***************************************************************************)
(* remove_shortcuts alone (trees.py 242-257), on any DAG: START and the     *)
(* MaxNodes nodes above in a topological order, any set of edges from an    *)
(* earlier node to a later one.                                            *)
(***************************************************************************)
DagNodes == PathNodes \cup {START}

DagEdges == {e \in DagNodes \X DagNodes : e[1].span[1] < e[2].span[1]}

DagGraphs == {[nodes |-> DagNodes, edges |-> E] : E \in SUBSET DagEdges}

InitDag ==
    /\ pc = "sentinels"
    /\ NoGrammar
    /\ NoParse
    /\ graph \in DagGraphs
    /\ items = <<>> /\ df = {} /\ to_remove = {}

NextDag == RemoveShortcuts

SpecDag == InitDag /\ [][NextDag]_vars

(***************************************************************************)
(* Properties of the interval graph builder.                               *)
(***************************************************************************)
ItemSet == {items[k] : k \in 1 .. Len(items)}

\* B may follow A: the relation computed by get_dense_matrix, read off the
\* dataframe
DfCandidates(A) == {items[y.b] : y \in {z \in df : items[z.a] = A}}

\* B may follow A, in document offsets
OffsetCandidates(A) == {B \in ItemSet : B.span[1] >= A.span[2]}

\* b is reachable from a through at least one intermediate node
LongerPath(G, a, b) ==
    \E c \in G.nodes \ {a, b} : c \in descendants(G, a) /\ b \in descendants(G, c)

Sentinels == {START, END}

Gap(A, B) == B.span[1] - A.span[2]

Blank(A, B) == Node(<<A.span[2], B.span[1]>>, "_")

\* the graph as the first reduction left it, recomputed from the document
FirstReduced ==
    remove_shortcuts(create_entry_and_exit_nodes(
        [nodes |-> ItemSet, edges |-> edges_from_dataframe(df, items)], items))

\* C10, as claimed: in the edge list of edges_from_dataframe the successors of
\* every elementary node A are exactly A's candidate successors whose start
\* equals the minimum start among all of A's candidates, whatever their labels.
C10_MinStartOverAll ==
    pc = "edges" =>
        \A A \in ItemSet :
            successors(graph, A) =
                {B \in DfCandidates(A) :
                    B.span[1] = MinOf({C.span[1] : C \in DfCandidates(A)})}

\* C10, amended: the successors of every elementary node A are exactly A's
\* candidate successors B (B.start >= A.end) whose start is at most the minimum
\* END offset among A's candidates that carry the label of B.
C10_MinEndPerLabel ==
    pc = "edges" =>
        \A A \in ItemSet :
            successors(graph, A) =
                {B \in OffsetCandidates(A) :
                    B.span[1] <= MinOf({C.span[2] :
                        C \in {D \in OffsetCandidates(A) : D.name = B.name}})}

\* C10 witness: some node keeps a candidate that starts after its nearest
\* candidate
C10_Witness ==
    /\ pc = "edges"
    /\ \E A \in ItemSet :
          \E B \in successors(graph, A) :
              B.span[1] > MinOf({C.span[1] : C \in OffsetCandidates(A)})

\* C6, as claimed: after remove_shortcuts no edge A -> B remains for which A
\* also reaches B through an intermediate node, whatever the length of that
\* path, edges incident to START and END included.
C6_NoImpliedEdge ==
    pc \in {"reduced", "base"} =>
        \A e \in graph.edges : ~LongerPath(graph, e[1], e[2])

\* C7: remove_shortcuts does not change reachability: B is reachable from A
\* after the reduction iff it was before (the graph before is the graph after
\* plus the edges marked for removal).
C7_ReachabilityKept ==
    pc \in {"reduced", "base"} =>
        LET before == [graph EXCEPT !.edges = @ \cup to_remove]
        IN  \A a \in graph.nodes :
                descendants(graph, a) = descendants(before, a)

\* C7 witness: a reduction that removed an edge a -> b doubled by a -> k -> b
\* together with the first hop a -> k of that longer path
C7_Witness ==
    /\ pc \in {"reduced", "base"}
    /\ \E e \in to_remove : \E k \in graph.nodes :
          /\ <<e[1], k>> \in to_remove
          /\ <<k, e[2]>> \in graph.edges \cup to_remove
          /\ e \notin graph.edges

\* C8: in the graph graph_from_document returns, every edge A -> B between
\* non-sentinel nodes that the first reduction left with B.start - A.end > 1 is
\* replaced by A -> blank -> B with exactly one blank node, of span
\* (A.end, B.start); no edge between non-blank, non-sentinel nodes spans a gap
\* greater than 1; no edge joins two blank nodes; the second reduction removes
\* no edge into or out of a blank node.
C8_GapsFilled ==
    pc = "base" =>
        /\ \A e \in FirstReduced.edges :
              (e[1] \notin Sentinels /\ e[2] \notin Sentinels /\ Gap(e[1], e[2]) > 1) =>
                  /\ e \notin graph.edges
                  /\ {n \in graph.nodes : /\ n.name = "_"
                                          /\ <<e[1], n>> \in graph.edges
                                          /\ <<n, e[2]>> \in graph.edges}
                         = {Blank(e[1], e[2])}
        /\ \A e \in graph.edges :
              (e[1] \notin Sentinels /\ e[2] \notin Sentinels) =>
                  /\ (e[1].name # "_" /\ e[2].name # "_") => Gap(e[1], e[2]) <= 1
                  /\ ~(e[1].name = "_" /\ e[2].name = "_")
        /\ \A e \in to_remove : e[1].name # "_" /\ e[2].name # "_"

\* C8 witness: a returned graph in which a blank node stands between two
\* annotations that the first reduction left adjacent
C8_Witness ==
    /\ pc = "base"
    /\ \E e \in FirstReduced.edges :
          /\ e[1] \in ItemSet /\ e[2] \in ItemSet
          /\ Blank(e[1], e[2]) \in graph.nodes

(***************************************************************************)
(* Properties of the rule application order.                               *)
(***************************************************************************)
\* the dependency set of k as the specification defines it: the OTHER
\* nonterminals in the right-hand sides of the rules of k
OtherDeps(rs, k) ==
    (UNION {Range(r.rhs) : r \in Range(GrammarRules(rs, k))} \cap nonterminals(rs)) \ {k}

RECURSIVE DepClosure(_, _)
DepClosure(rs, S) ==
    LET more == UNION {OtherDeps(rs, k) : k \in S}
    IN  IF more \subseteq S THEN S ELSE DepClosure(rs, S \cup more)

\* the nonterminals k depends on, directly or not
DependsOn(rs, k) == DepClosure(rs, OtherDeps(rs, k))

CyclicDependency(rs) == \E k \in nonterminals(rs) : k \in DependsOn(rs, k)

\* order holds every nonterminal exactly once, each after its dependency set
OrderRespectsDeps ==
    /\ Len(order) = Cardinality(nonterminals(rules))
    /\ Range(order) = nonterminals(rules)
    /\ \A i \in 1 .. Len(order) :
          OtherDeps(rules, order[i]) \subseteq {order[j] : j \in 1 .. i - 1}

\* C4, as claimed: for every grammar whose dependency relation among distinct
\* nonterminals is acyclic, get_rule_application_order terminates and returns
\* every nonterminal exactly once, each after the nonterminals it depends on.
C4_OrderReturned ==
    (pc = "while" /\ ~CyclicDependency(rules))
        ~> (pc = "start" /\ OrderRespectsDeps)

\* C5, as claimed: when the nonterminals have a cyclic dependency the
\* construction of the Grammar ends by reporting a configuration error (the
\* model has no such position, as the source has no such statement).
C5_CycleReported ==
    (pc = "while" /\ CyclicDependency(rules)) ~> (pc = "configuration_error")

(***************************************************************************)
(* Properties of chart resolution and of the selected tree.                *)
(***************************************************************************)
\* the entries of the candidate map recorded under the span and label of n
EntriesOf(n) ==
    {k \in 1 .. Len(nodes) : nodes[k].key.span = n.span /\ nodes[k].key.name = n.name}

StartSymbolSynthesized ==
    \E k \in 1 .. Len(nodes) : nodes[k].key.name = start_symbol

Parents(n) == {e[1] : e \in {d \in tree.edges : d[2] = n}}

Children(n) == {e[2] : e \in {d \in tree.edges : d[1] = n}}

RECURSIVE Below(_)
Below(S) ==
    LET more == UNION {Children(n) : n \in S}
    IN  IF more \subseteq S THEN S ELSE Below(S \cup more)

Roots == {n \in tree.nodes : Parents(n) = {}}

\* no node of the tree has two parents or is its own descendant
NoSharedChild ==
    \A n \in tree.nodes :
        /\ Cardinality(Parents(n)) <= 1
        /\ n \notin Below(Children(n))

\* exactly one node has no parent, it is labelled with the start symbol, and
\* every other node is the child of exactly one node and below the root
RootedTree ==
    /\ Cardinality(Roots) = 1
    /\ \A r \in Roots : r.name = start_symbol /\ Below({r}) = tree.nodes
    /\ \A n \in tree.nodes \ Roots : Cardinality(Parents(n)) = 1

\* C1: the graph choose_parse_tree returns is a proper rooted tree: one node
\* without a parent, labelled with the start symbol, every other node a child
\* exactly once (no node with two parents, also while the tree is built); and
\* the work-queue loop terminates.
C1_ProperTree ==
    /\ [](pc \in {"expand", "done"} => NoSharedChild)
    /\ [](pc = "done" => RootedTree)
    /\ (pc = "expand" ~> pc = "done")

\* C1 witness: a returned tree of depth two, with a nonterminal below the root
C1_Witness ==
    /\ pc = "done"
    /\ \E e \in tree.edges : Children(e[2]) # {} /\ Parents(e[1]) = {}

\* C2: when no node labelled with the start symbol was synthesized,
\* choose_parse_tree fails and returns no tree; a returned tree is never empty
\* or partial: every nonterminal node of it has the children of one recorded
\* derivation, and every leaf is an elementary or a blank node.
C2_FailsOrWholeTree ==
    /\ pc = "parse_failed" => ~StartSymbolSynthesized /\ tree = EmptyGraph
    /\ pc \in {"expand", "done"} =>
          /\ StartSymbolSynthesized
          /\ \A n \in tree.nodes :
                \/ Children(n) = {}
                \/ \E k \in EntriesOf(n) : \E j \in 1 .. Len(nodes[k].derivs) :
                       Children(n) = Range(nodes[k].derivs[j].children)
    /\ pc = "done" =>
          /\ tree.nodes # {}
          /\ \A n \in tree.nodes :
                Children(n) = {} =>
                    /\ EntriesOf(n) = {}
                    /\ n \in ItemSet \/ (n.name = "_" /\ n \in graph.nodes)

\* C2 witness: chart resolution synthesized a nonterminal, none of them labelled
\* with the start symbol, and choose_parse_tree failed
C2_Witness ==
    /\ pc = "parse_failed"
    /\ nodes # <<>>

\* C3, as claimed: every derivation (rule, path) of the candidate map is
\* recorded under a key of span (path[0].start, path[-1].end), label rule.lhs
\* and weight rule.weight, also when several rules produce the same span and
\* label.
C3_KeyOfDerivation ==
    \A k \in 1 .. Len(nodes) : \A j \in 1 .. Len(nodes[k].derivs) :
        LET d == nodes[k].derivs[j]
        IN  /\ nodes[k].key.span =
                   <<d.children[1].span[1], d.children[Len(d.children)].span[2]>>
            /\ nodes[k].key.name = d.rule.lhs
            /\ nodes[k].weight = d.rule.weight

\* the sequences of k non-sentinel nodes of G, joined by edges of G, whose
\* labels are those of rhs
LabelledPaths(G, rhs) ==
    {p \in [1 .. Len(rhs) -> G.nodes \ Sentinels] :
        /\ \A i \in 1 .. Len(rhs) : p[i].name = rhs[i]
        /\ \A i \in 1 .. Len(rhs) - 1 : <<p[i], p[i + 1]>> \in G.edges}

\* C9: get_valid_paths terminates and returns, each exactly once and nothing
\* else, the sequences of len(rhs) non-sentinel nodes joined by graph edges
\* whose labels equal rhs position by position.
C9_ExactlyTheLabelledPaths ==
    (pc = "paths" /\ pi = 1) =>
        /\ Range(paths) = LabelledPaths(g2, CurrentRule.rhs)
        /\ \A i, j \in 1 .. Len(paths) : paths[i] = paths[j] => i = j

\* C9 witness: a search for a rule of two symbols or more that found two
\* paths or more, one of them through the same node twice, and left a node
\* labelled rhs[0] out
C9_Witness ==
    /\ pc = "paths" /\ pi = 1
    /\ Len(CurrentRule.rhs) >= 2
    /\ Len(paths) >= 2
    /\ \E i \in 1 .. Len(paths) : paths[i][1] = paths[i][2]
    /\ \E n \in g2.nodes :
          n.name = CurrentRule.rhs[1] /\ \A i \in 1 .. Len(paths) : paths[i][1] # n

(***************************************************************************)
(* Properties of one level of chart resolution: all rules and all paths of  *)
(* one nonterminal.                                                        *)
(***************************************************************************)
\* a level has ended: the loops of get_nonterminal_nodes stand before the
\* first rule of the next nonterminal, or after the last one
LevelEnded == pc = "rule" /\ ri = 1 /\ ni >= 2

\* the graph and the candidate map when the level that has ended began
StartOfLevel == AfterLevels(graph, rules, ni - 2)

\* the additions for the paths of one rule, every predecessor and successor
\* set read from the graph G0
RECURSIVE MergePaths(_, _, _, _, _, _)
MergePaths(S, G0, nonterminal, rule, ps, i) ==
    IF i > Len(ps) THEN S
    ELSE LET node == Synthesized(nonterminal, ps[i])
             g    == [nodes |-> S.g.nodes \cup {node},
                      edges |-> S.g.edges
                                    \cup {<<x, node>> : x \in predecessors(G0, ps[i][1])}
                                    \cup {<<node, x>> :
                                              x \in successors(G0, ps[i][Len(ps[i])])}]
         IN  MergePaths([g |-> g, m |-> Record(S.m, node, rule, ps[i])],
                        G0, nonterminal, rule, ps, i + 1)

\* a level in which every path search and every predecessor and successor set
\* is evaluated on the graph G0 of the start of the level, the additions
\* merged into S
RECURSIVE SnapshotLevel(_, _, _, _, _)
SnapshotLevel(S, G0, nonterminal, rs, j) ==
    IF j > Len(rs) THEN S
    ELSE SnapshotLevel(
             MergePaths(S, G0, nonterminal, rs[j], get_valid_paths(G0, rs[j]), 1),
             G0, nonterminal, rs, j + 1)

\* the level that has ended, run on its start-of-level graph
Snapshot ==
    SnapshotLevel(StartOfLevel, StartOfLevel.g, order[ni - 1],
                  GrammarRules(rules, order[ni - 1]), 1)

====
